---------------------------- MODULE Spec2Model ----------------------------
(***************************************************************************)
(* Model of read_excel.py: the spreadsheet-to-dataset pipeline             *)
(* (load_rows, transform, main) and the pure text functions it is built    *)
(* from.                                                                   *)
(*                                                                         *)
(* Text is a sequence of characters.  An ASCII character is the one-       *)
(* character string holding it; a non-ASCII code point is the string       *)
(* "U+XXXX" naming it.  Enumerated results that the code never takes       *)
(* apart (linkage, product focus, justification) are plain strings.        *)
(***************************************************************************)
EXTENDS Naturals, Sequences, FiniteSets, TLC

VARIABLES
    args,                   \* arguments of the pure function under call
    rets,                   \* values returned so far by the calls on args
    input_exists,           \* INPUT_XLSX.exists()
    sheet,                  \* the data frame pd.read_excel returns (raw cells)
    pc,                     \* position of main/transform/load_rows
    source_rows,            \* transform: source_rows
    species,                \* transform: species
    next_row,               \* transform: rows of source_rows the loop has taken
    district_counter,       \* transform: the five Counters, in insertion order
    linkage_counter,
    species_type_counter,
    habitat_counter,
    parts_counter,
    recommendations,        \* transform: recommendations
    output                  \* contents of OUTPUT_JSON, NoOutput when not written

counterVars == <<district_counter, linkage_counter, species_type_counter,
                 habitat_counter, parts_counter>>
runVars == <<input_exists, sheet, pc, source_rows, species, next_row, district_counter,
             linkage_counter, species_type_counter, habitat_counter,
             parts_counter, recommendations, output>>
vars == <<args, rets, input_exists, sheet, pc, source_rows, species, next_row,
          district_counter, linkage_counter, species_type_counter,
          habitat_counter, parts_counter, recommendations, output>>

-----------------------------------------------------------------------------
(* Bounds of the model.                                                    *)

MaxLen == 3             \* characters in a to_ascii argument
MaxPieces == 3          \* fragments concatenated into a "parts used" cell
MaxProducts == 2        \* product names in a determine_product_focus argument
MaxRows == 3            \* rows of the sheet

-----------------------------------------------------------------------------
(* Characters and generic sequence helpers.                                *)

Range(s) == {s[i] : i \in 1..Len(s)}

SeqsUpTo(S, n) == UNION {[1..k -> S] : k \in 0..n}

\* The 128 ASCII characters in code order: Ascii[n + 1] is chr(n).  A
\* character a string literal cannot hold is written "U+XXXX": the control
\* characters other than \t \n \f \r, and the grave accent.
Ascii ==
    <<"U+0000", "U+0001", "U+0002", "U+0003", "U+0004", "U+0005", "U+0006",
      "U+0007", "U+0008", "\t", "\n", "U+000B", "\f", "\r", "U+000E",
      "U+000F", "U+0010", "U+0011", "U+0012", "U+0013", "U+0014", "U+0015",
      "U+0016", "U+0017", "U+0018", "U+0019", "U+001A", "U+001B", "U+001C",
      "U+001D", "U+001E", "U+001F", " ", "!", "\"", "#", "$", "%", "&", "'",
      "(", ")", "*", "+", ",", "-", ".", "/", "0", "1", "2", "3", "4", "5",
      "6", "7", "8", "9", ":", ";", "<", "=", ">", "?", "@", "A", "B", "C",
      "D", "E", "F", "G", "H", "I", "J", "K", "L", "M", "N", "O", "P", "Q",
      "R", "S", "T", "U", "V", "W", "X", "Y", "Z", "[", "\\", "]", "^", "_",
      "U+0060", "a", "b", "c", "d", "e", "f", "g", "h", "i", "j", "k", "l",
      "m", "n", "o", "p", "q", "r", "s", "t", "u", "v", "w", "x", "y", "z",
      "{", "|", "}", "~", "U+007F">>

AsciiChars == Range(Ascii)

\* The non-ASCII code points of the model: no-break space, E-acute, e-acute,
\* combining acute accent, the ideograph U+4E2D, the fi ligature.
NonAsciiChars == {"U+00A0", "U+00C9", "U+00E9", "U+0301", "U+4E2D", "U+FB01"}

\* ord(c)
Ord ==
    [c \in AsciiChars \cup NonAsciiChars |->
        CASE c = "U+00A0" -> 160
          [] c = "U+00C9" -> 201
          [] c = "U+00E9" -> 233
          [] c = "U+0301" -> 769
          [] c = "U+4E2D" -> 20013
          [] c = "U+FB01" -> 64257
          [] OTHER -> (CHOOSE i \in 1..Len(Ascii) : Ascii[i] = c) - 1]

\* chr(n) for n < 128
Chr(n) == Ascii[n + 1]

UpperLetters == {Chr(n) : n \in 65..90}
LowerLetters == {Chr(n) : n \in 97..122}
Digits == {Chr(n) : n \in 48..57}

\* The characters c with c.isspace(): space, \t \n \v \f \r, the separators
\* \x1c to \x1f, and the no-break space.
SpaceChars ==
    {" ", "\t", "\n", "U+000B", "\f", "\r", "U+001C", "U+001D", "U+001E", "U+001F",
     "U+00A0"}

IsSpace(c) == c \in SpaceChars

\* str.lower() of one character, and the upper-case form of a letter.
LowerChar(c) == IF c \in UpperLetters THEN Chr(Ord[c] + 32)
                ELSE IF c = "U+00C9" THEN "U+00E9" ELSE c
UpperChar(c) == IF c \in LowerLetters THEN Chr(Ord[c] - 32)
                ELSE IF c = "U+00E9" THEN "U+00C9" ELSE c

\* The title-case form of one character: the fi ligature becomes F, i.
TitleChar(c) == IF c = "U+FB01" THEN <<"F", "i">> ELSE <<UpperChar(c)>>

lower(s) == [i \in 1..Len(s) |-> LowerChar(s[i])]

IsCased(c) == c \in UpperLetters \cup LowerLetters \cup {"U+00E9", "U+00C9", "U+FB01"}

RECURSIVE Concat(_)
Concat(seqs) == IF seqs = <<>> THEN <<>> ELSE Head(seqs) \o Concat(Tail(seqs))

\* str.title(): a character is title-cased when it follows an uncased one
\* (or starts the string) and lower-cased otherwise.
title(s) ==
    Concat([i \in 1..Len(s) |->
        IF i = 1 \/ ~IsCased(s[i - 1]) THEN TitleChar(s[i]) ELSE <<LowerChar(s[i])>>])

\* sep.join(items)
RECURSIVE Join(_, _)
Join(items, sep) ==
    IF items = <<>> THEN <<>>
    ELSE IF Len(items) = 1 THEN items[1]
    ELSE items[1] \o sep \o Join(Tail(items), sep)

\* s[i:] starts with t
StartsAt(s, i, t) ==
    /\ i + Len(t) - 1 <= Len(s)
    /\ \A k \in 1..Len(t) : s[i + k - 1] = t[k]

\* t in s
Contains(s, t) == \E i \in 1..(Len(s) + 1) : StartsAt(s, i, t)

\* Python's < on two strings (code point order, a prefix is smaller).
RECURSIVE StrLess(_, _)
StrLess(a, b) ==
    IF b = <<>> THEN FALSE
    ELSE IF a = <<>> THEN TRUE
    ELSE IF Head(a) # Head(b) THEN Ord[Head(a)] < Ord[Head(b)]
    ELSE StrLess(Tail(a), Tail(b))

\* str.split() with no argument: the maximal runs of non-whitespace.
RECURSIVE SplitWs(_, _)
SplitWs(s, word) ==
    IF s = <<>> THEN (IF word = <<>> THEN <<>> ELSE <<word>>)
    ELSE IF IsSpace(Head(s))
         THEN (IF word = <<>> THEN <<>> ELSE <<word>>) \o SplitWs(Tail(s), <<>>)
         ELSE SplitWs(Tail(s), Append(word, Head(s)))

\* str.strip() with no argument / with a set of characters.
RECURSIVE StripLeft(_, _)
StripLeft(s, chars) ==
    IF s # <<>> /\ Head(s) \in chars THEN StripLeft(Tail(s), chars) ELSE s
RECURSIVE StripRight(_, _)
StripRight(s, chars) ==
    IF s # <<>> /\ s[Len(s)] \in chars
    THEN StripRight(SubSeq(s, 1, Len(s) - 1), chars) ELSE s
strip(s, chars) == StripRight(StripLeft(s, chars), chars)

-----------------------------------------------------------------------------
(* to_ascii                                                                *)

\* unicodedata.normalize("NFKD", c) for the code points the model uses:
\* e-acute decomposes to e + combining acute, the no-break space to a space,
\* the fi ligature to f + i; every ASCII character, the ideograph U+4E2D and
\* the combining acute itself are unchanged.
NFKD(c) ==
    CASE c = "U+00E9" -> <<"e", "U+0301">>
      [] c = "U+00C9" -> <<"E", "U+0301">>
      [] c = "U+00A0" -> <<" ">>
      [] c = "U+FB01" -> <<"f", "i">>
      [] OTHER -> <<c>>

normalize_NFKD(text) == Concat([i \in 1..Len(text) |-> NFKD(text[i])])

\* text.encode("ascii", "ignore").decode("ascii")
encode_ascii_ignore(text) == SelectSeq(text, LAMBDA c : c \in AsciiChars)

\* A slip that collapses the whitespace before the non-ASCII characters go.
to_ascii_collapse_first(text) ==
    encode_ascii_ignore(
        Join(SplitWs(strip(normalize_NFKD(text), SpaceChars), <<>>), <<" ">>))

to_ascii(text) ==
    LET normalized == normalize_NFKD(text)
        ascii_text == encode_ascii_ignore(normalized)
    IN  Join(SplitWs(strip(ascii_text, SpaceChars), <<>>), <<" ">>)

-----------------------------------------------------------------------------
(* normalize_token, slugify, split_by_comma, parse_products,               *)
(* parse_districts                                                         *)

\* re.sub(r"[set]+", repl, s) when inside, re.sub(r"[^set]+", repl, s) when
\* not: every maximal run of matching characters becomes one repl.
RECURSIVE re_sub_runs(_, _, _, _, _)
re_sub_runs(s, set, inside, repl, inRun) ==
    IF s = <<>> THEN <<>>
    ELSE IF (Head(s) \in set) = inside
         THEN (IF inRun THEN <<>> ELSE repl)
              \o re_sub_runs(Tail(s), set, inside, repl, TRUE)
         ELSE <<Head(s)>> \o re_sub_runs(Tail(s), set, inside, repl, FALSE)

\* str.replace(old, new) for a one-character old.
replace(s, old, new) == Concat([i \in 1..Len(s) |-> IF s[i] = old THEN new ELSE <<s[i]>>])

normalize_token(token) ==
    LET ascii_token == lower(to_ascii(token))
        dashed == replace(ascii_token, "-", <<" ">>)
        letters == re_sub_runs(dashed, LowerLetters \cup {" "}, FALSE, <<" ">>, FALSE)
    IN  strip(re_sub_runs(letters, SpaceChars, TRUE, <<" ">>, FALSE), SpaceChars)

slugify(value) ==
    LET slug == re_sub_runs(lower(value), LowerLetters \cup Digits, FALSE, <<"-">>, FALSE)
    IN  strip(slug, {"-"})

\* str.split(sep) for a one-character sep: empty pieces are kept.
RECURSIVE split(_, _, _)
split(s, sep, piece) ==
    IF s = <<>> THEN <<piece>>
    ELSE IF Head(s) = sep THEN <<piece>> \o split(Tail(s), sep, <<>>)
    ELSE split(Tail(s), sep, Append(piece, Head(s)))

split_by_comma(raw) ==
    IF raw = <<>> THEN <<>>
    ELSE LET parts == split(raw, ",", <<>>)
             items == [i \in 1..Len(parts) |-> to_ascii(parts[i])]
             stripped == [i \in 1..Len(items) |-> strip(items[i], SpaceChars)]
         IN  SelectSeq(stripped, LAMBDA item : item # <<>>)

parse_products(raw) == split_by_comma(raw)

\* sorted(S) for a set S of strings: the element at position i is the one
\* with i - 1 smaller elements.
sorted(S) ==
    [i \in 1..Cardinality(S) |->
        CHOOSE x \in S : Cardinality({y \in S : StrLess(y, x)}) = i - 1]

\* A slip that leaves out the title-casing.
parse_districts_untitled(raw) ==
    LET districts == split_by_comma(raw)
    IN  sorted({districts[i] : i \in {j \in 1..Len(districts) : districts[j] # <<>>}})

parse_districts(raw) ==
    LET districts == split_by_comma(raw)
    IN  sorted({title(districts[i]) : i \in {j \in 1..Len(districts) : districts[j] # <<>>}})

-----------------------------------------------------------------------------
(* The lookup tables.                                                      *)

SCORE_MAP == <<<<<<"h", "i", "g", "h">>, 3>>, <<<<"m", "e", "d", "i", "u", "m">>, 2>>, <<<<"l", "o", "w">>, 1>>>>

CATEGORY_KEYWORDS ==
    <<[label |-> "Beverages & Processed Foods",
       keywords |-> <<<<"j", "u", "i", "c", "e">>, <<"s", "q", "u", "a", "s", "h">>, <<"w", "i", "n", "e">>,
                      <<"j", "a", "m">>, <<"j", "e", "l", "l", "y">>, <<"p", "i", "c", "k", "l", "e">>,
                      <<"c", "a", "n", "d", "y">>, <<"c", "h", "u", "t", "n", "e", "y">>,
                      <<"p", "o", "w", "d", "e", "r">>, <<"t", "e", "a">>, <<"c", "o", "f", "f", "e", "e">>,
                      <<"s", "n", "a", "c", "k">>, <<"s", "h", "e", "r", "b", "e", "t">>,
                      <<"c", "h", "u", "r", "a", "n">>>>],
      [label |-> "Extracts & Oils",
       keywords |-> <<<<"o", "i", "l">>, <<"a", "t", "t", "a", "r">>, <<"d", "i", "s", "t", "i", "l", "l">>,
                      <<"e", "x", "t", "r", "a", "c", "t">>, <<"r", "e", "s", "i", "n">>>>],
      [label |-> "Medicinal & Wellness",
       keywords |-> <<<<"m", "e", "d", "i", "c", "i", "n", "e">>, <<"h", "e", "r", "b", "a", "l">>,
                      <<"s", "u", "p", "p", "l", "e", "m", "e", "n", "t">>, <<"t", "o", "n", "i", "c">>,
                      <<"t", "e", "a">>, <<"r", "e", "m", "e", "d", "y">>,
                      <<"c", "a", "p", "s", "u", "l", "e">>>>],
      [label |-> "Food Ingredients",
       keywords |-> <<<<"f", "l", "o", "u", "r">>, <<"g", "r", "a", "i", "n">>,
                      <<"m", "i", "l", "l", "e", "t">>, <<"c", "e", "r", "e", "a", "l">>,
                      <<"k", "e", "r", "n", "e", "l">>, <<"s", "e", "e", "d">>>>],
      [label |-> "Fiber & Materials",
       keywords |-> <<<<"w", "o", "o", "d">>, <<"t", "i", "m", "b", "e", "r">>, <<"f", "i", "b", "e", "r">>,
                      <<"s", "t", "r", "a", "w">>, <<"s", "h", "e", "l", "l">>, <<"p", "o", "d">>>>]>>

PART_LOOKUP ==
    <<<<<<"b", "a", "r", "k">>, <<"B", "a", "r", "k">>>>,
      <<<<"f", "l", "o", "w", "e", "r">>, <<"F", "l", "o", "w", "e", "r">>>>,
      <<<<"f", "r", "u", "i", "t">>, <<"F", "r", "u", "i", "t">>>>,
      <<<<"g", "r", "a", "i", "n">>, <<"G", "r", "a", "i", "n">>>>,
      <<<<"g", "r", "a", "i", "n", "s">>, <<"G", "r", "a", "i", "n">>>>,
      <<<<"l", "e", "a", "f">>, <<"L", "e", "a", "f">>>>,
      <<<<"l", "e", "a", "v", "e", "s">>, <<"L", "e", "a", "f">>>>,
      <<<<"n", "u", "t">>, <<"N", "u", "t", " ", "&", " ", "K", "e", "r", "n", "e", "l">>>>,
      <<<<"k", "e", "r", "n", "e", "l">>, <<"N", "u", "t", " ", "&", " ", "K", "e", "r", "n", "e", "l">>>>,
      <<<<"n", "u", "t", " ", "k", "e", "r", "n", "e", "l">>, <<"N", "u", "t", " ", "&", " ", "K", "e", "r", "n", "e", "l">>>>,
      <<<<"p", "e", "e", "l">>, <<"P", "e", "e", "l", " ", "&", " ", "P", "o", "m", "a", "c", "e">>>>,
      <<<<"p", "o", "m", "a", "c", "e">>, <<"P", "e", "e", "l", " ", "&", " ", "P", "o", "m", "a", "c", "e">>>>,
      <<<<"p", "o", "d">>, <<"P", "o", "d">>>>,
      <<<<"r", "e", "s", "i", "n">>, <<"R", "e", "s", "i", "n", " ", "&", " ", "G", "u", "m">>>>,
      <<<<"g", "u", "m">>, <<"R", "e", "s", "i", "n", " ", "&", " ", "G", "u", "m">>>>,
      <<<<"r", "o", "o", "t">>, <<"R", "o", "o", "t", " ", "&", " ", "R", "h", "i", "z", "o", "m", "e">>>>,
      <<<<"r", "h", "i", "z", "o", "m", "e">>, <<"R", "o", "o", "t", " ", "&", " ", "R", "h", "i", "z", "o", "m", "e">>>>,
      <<<<"r", "o", "o", "t", " ", "r", "h", "i", "z", "o", "m", "e">>, <<"R", "o", "o", "t", " ", "&", " ", "R", "h", "i", "z", "o", "m", "e">>>>,
      <<<<"s", "e", "e", "d">>, <<"S", "e", "e", "d">>>>,
      <<<<"s", "h", "e", "l", "l">>, <<"S", "h", "e", "l", "l">>>>,
      <<<<"s", "h", "o", "o", "t">>, <<"S", "t", "e", "m", " ", "&", " ", "S", "h", "o", "o", "t">>>>,
      <<<<"s", "t", "e", "m">>, <<"S", "t", "e", "m", " ", "&", " ", "S", "h", "o", "o", "t">>>>,
      <<<<"s", "t", "e", "m", " ", "s", "h", "o", "o", "t">>, <<"S", "t", "e", "m", " ", "&", " ", "S", "h", "o", "o", "t">>>>,
      <<<<"s", "t", "r", "a", "w">>, <<"S", "t", "r", "a", "w">>>>,
      <<<<"t", "h", "a", "l", "l", "u", "s">>, <<"W", "h", "o", "l", "e", " ", "T", "h", "a", "l", "l", "u", "s">>>>,
      <<<<"w", "o", "o", "d">>, <<"W", "o", "o", "d", " ", "&", " ", "T", "i", "m", "b", "e", "r">>>>,
      <<<<"t", "i", "m", "b", "e", "r">>, <<"W", "o", "o", "d", " ", "&", " ", "T", "i", "m", "b", "e", "r">>>>>>

PART_ORDER ==
    <<<<"B", "a", "r", "k">>,
      <<"F", "l", "o", "w", "e", "r">>,
      <<"L", "e", "a", "f">>,
      <<"F", "r", "u", "i", "t">>,
      <<"S", "e", "e", "d">>,
      <<"R", "o", "o", "t", " ", "&", " ", "R", "h", "i", "z", "o", "m", "e">>,
      <<"S", "t", "e", "m", " ", "&", " ", "S", "h", "o", "o", "t">>,
      <<"W", "o", "o", "d", " ", "&", " ", "T", "i", "m", "b", "e", "r">>,
      <<"N", "u", "t", " ", "&", " ", "K", "e", "r", "n", "e", "l">>,
      <<"R", "e", "s", "i", "n", " ", "&", " ", "G", "u", "m">>,
      <<"G", "r", "a", "i", "n">>,
      <<"S", "t", "r", "a", "w">>,
      <<"P", "o", "d">>,
      <<"P", "e", "e", "l", " ", "&", " ", "P", "o", "m", "a", "c", "e">>,
      <<"S", "h", "e", "l", "l">>,
      <<"W", "h", "o", "l", "e", " ", "T", "h", "a", "l", "l", "u", "s">>>>

\* dict.get(key, default) on a table of <<key, value>> pairs.
dict_get(table, key, default) ==
    IF \E i \in 1..Len(table) : table[i][1] = key
    THEN table[CHOOSE i \in 1..Len(table) : table[i][1] = key][2]
    ELSE default

\* list.index(x) (from 0) for an x the list holds.
index(list, x) == (CHOOSE i \in 1..Len(list) : list[i] = x /\ \A j \in 1..(i - 1) : list[j] # x) - 1

-----------------------------------------------------------------------------
(* parse_parts                                                             *)

\* \w of the re module (a str pattern) among the characters of the model:
\* the letters and digits, the underscore, and the non-ASCII letters.
IsWord(c) ==
    c \in UpperLetters \cup LowerLetters \cup Digits
          \cup {"_", "U+00E9", "U+00C9", "U+4E2D", "U+FB01"}

\* r"\band\b" with re.IGNORECASE matches at position i of s.
AndAt(s, i) ==
    /\ i + 2 <= Len(s)
    /\ lower(SubSeq(s, i, i + 2)) = <<"a", "n", "d">>
    /\ (i = 1 \/ ~IsWord(s[i - 1]))
    /\ (i + 3 > Len(s) \/ ~IsWord(s[i + 3]))

\* re.split(r",|/|;|\band\b", s, flags=re.IGNORECASE), scanning from i.
RECURSIVE re_split(_, _, _)
re_split(s, i, token) ==
    IF i > Len(s) THEN <<token>>
    ELSE IF s[i] \in {",", "/", ";"} THEN <<token>> \o re_split(s, i + 1, <<>>)
    ELSE IF AndAt(s, i) THEN <<token>> \o re_split(s, i + 3, <<>>)
    ELSE re_split(s, i + 1, Append(token, s[i]))

\* The sort key of parse_parts, compared as Python compares tuples.
PartKey(part) == IF part \in Range(PART_ORDER) THEN index(PART_ORDER, part) ELSE Len(PART_ORDER)
PartKeyLess(a, b) ==
    \/ PartKey(a) < PartKey(b)
    \/ PartKey(a) = PartKey(b) /\ StrLess(a, b)

\* sorted(S, key=...) with the sort key of parse_parts.
sorted_by_part_key(S) ==
    [i \in 1..Cardinality(S) |->
        CHOOSE x \in S : Cardinality({y \in S : PartKeyLess(y, x)}) = i - 1]

\* The canonical set parse_parts collects.
canonical_parts(raw) ==
    LET tokens == re_split(raw, 1, <<>>)
        cleaned == [i \in 1..Len(tokens) |-> normalize_token(tokens[i])]
    IN  {dict_get(PART_LOOKUP, cleaned[i], title(cleaned[i])) :
            i \in {j \in 1..Len(tokens) : cleaned[j] # <<>>}}

\* A slip that sorts the labels by their text alone.
parse_parts_by_text(raw) ==
    IF raw = <<>> THEN <<>>
    ELSE sorted({part \in canonical_parts(raw) : part # <<>>})

parse_parts(raw) ==
    IF raw = <<>> THEN <<>>
    ELSE LET filtered == {part \in canonical_parts(raw) : part # <<>>}
         IN  sorted_by_part_key(filtered)

-----------------------------------------------------------------------------
(* The classifiers.                                                        *)

\* A slip that looks the labels up without lower-casing them.
determine_linkage_case_sensitive(volume, commercial) ==
    LET vol_score == dict_get(SCORE_MAP, volume, 2)
        val_score == dict_get(SCORE_MAP, commercial, 2)
    IN  IF vol_score >= 3 /\ val_score >= 3 THEN "Integrated"
        ELSE IF vol_score < val_score THEN "Backward"
        ELSE IF val_score < vol_score THEN "Forward"
        ELSE "Integrated"

determine_linkage(volume, commercial) ==
    LET vol_score == dict_get(SCORE_MAP, lower(volume), 2)
        val_score == dict_get(SCORE_MAP, lower(commercial), 2)
    IN  IF vol_score >= 3 /\ val_score >= 3 THEN "Integrated"
        ELSE IF vol_score < val_score THEN "Backward"
        ELSE IF val_score < vol_score THEN "Forward"
        ELSE "Integrated"

determine_species_type(category) ==
    LET category_lower == lower(category)
    IN  IF Contains(category_lower, <<"a", "g", "r", "o">>) THEN <<"A", "g", "r", "o", "-", "c", "o", "m", "m", "o", "d", "i", "t", "y">> ELSE <<"N", "T", "F", "P">>

\* any(keyword in joined for keyword in keywords)
any_keyword_in(keywords, joined) ==
    \E k \in 1..Len(keywords) : Contains(joined, keywords[k])

\* The for loop of determine_product_focus from table entry i on.
RECURSIVE first_category(_, _)
first_category(joined, i) ==
    IF i > Len(CATEGORY_KEYWORDS) THEN "Other Value Chain"
    ELSE IF any_keyword_in(CATEGORY_KEYWORDS[i].keywords, joined)
         THEN CATEGORY_KEYWORDS[i].label
         ELSE first_category(joined, i + 1)

\* The same loop without its return: the last matching entry wins.
RECURSIVE last_category(_, _, _)
last_category(joined, i, found) ==
    IF i > Len(CATEGORY_KEYWORDS) THEN found
    ELSE last_category(joined, i + 1,
            IF any_keyword_in(CATEGORY_KEYWORDS[i].keywords, joined)
            THEN CATEGORY_KEYWORDS[i].label ELSE found)

\* A slip that lets a later table entry override an earlier one.
determine_product_focus_last_match(products) ==
    LET joined == Join([i \in 1..Len(products) |-> lower(products[i])], <<" ">>)
    IN  last_category(joined, 1, "Other Value Chain")

determine_product_focus(products) ==
    LET joined == Join([i \in 1..Len(products) |-> lower(products[i])], <<" ">>)
    IN  first_category(joined, 1)

-----------------------------------------------------------------------------
(* The record's prose.                                                     *)

human_join(items) ==
    IF items = <<>> THEN <<>>
    ELSE IF Len(items) = 1 THEN items[1]
    ELSE Join(SubSeq(items, 1, Len(items) - 1), <<",", " ">>) \o <<" ", "a", "n", "d", " ">> \o items[Len(items)]

build_strength(name, species_type, volume, commercial, districts) ==
    LET descriptors ==
            (IF volume # <<>> THEN <<lower(volume) \o <<" ", "v", "o", "l", "u", "m", "e", " ", "p", "o", "t", "e", "n", "t", "i", "a", "l">>>> ELSE <<>>)
            \o (IF commercial # <<>> THEN <<lower(commercial) \o <<" ", "c", "o", "m", "m", "e", "r", "c", "i", "a", "l", " ", "v", "a", "l", "u", "e">>>> ELSE <<>>)
        base == name \o <<" ", "(">> \o species_type \o <<")">>
        shown == IF descriptors # <<>>
                 THEN base \o <<" ", "s", "h", "o", "w", "s", " ">> \o Join(descriptors, <<" ", "a", "n", "d", " ">>) ELSE base
        placed == IF districts # <<>>
                  THEN shown \o <<" ", "a", "c", "r", "o", "s", "s", " ">> \o human_join(districts) ELSE shown
    IN  placed \o <<".">>

build_justification(linkage, products, parts) ==
    CASE linkage = "Backward" ->
            "Strengthen cultivation, nurseries, and aggregation systems to stabilise supply."
      [] linkage = "Forward" ->
            "Invest in processing, packaging, and market development to capture premiums."
      [] linkage = "Integrated" ->
            "Coordinate both production and market-side interventions for balanced growth."

-----------------------------------------------------------------------------
(* Cells, rows and Counters.                                               *)

None == <<"None">>          \* Python's None (no text is equal to it)
NaN == <<"NaN">>            \* the float nan pandas gives an empty cell

clean_cell(value) ==
    IF value = None THEN <<>>
    ELSE IF value = NaN THEN <<>>
    ELSE to_ascii(value)

\* row.get(key)
row_get(row, key) == IF key \in DOMAIN row THEN row[key] ELSE None

\* A slip that defaults only a missing key, as row.get(key, y) would.
py_or_none_only(x, y) == IF x = None THEN y ELSE x

\* x or y, for x a string or None
py_or(x, y) == IF x = None \/ x = <<>> THEN y ELSE x

\* counter[key] += 1 on a Counter kept as its <<key, count>> items in
\* insertion order.
counter_inc(counter, key) ==
    IF \E i \in 1..Len(counter) : counter[i][1] = key
    THEN [i \in 1..Len(counter) |->
            IF counter[i][1] = key THEN <<key, counter[i][2] + 1>> ELSE counter[i]]
    ELSE Append(counter, <<key, 1>>)

\* for key in keys: counter[key] += 1
RECURSIVE counter_inc_all(_, _)
counter_inc_all(counter, keys) ==
    IF keys = <<>> THEN counter
    ELSE counter_inc_all(counter_inc(counter, Head(keys)), Tail(keys))

\* counter.get(key, 0)
counter_get(counter, key) == dict_get(counter, key, 0)

\* counter.most_common(n): by falling count, equal counts in insertion order.
most_common(counter, n) ==
    LET before(j, i) == \/ counter[j][2] > counter[i][2]
                        \/ counter[j][2] = counter[i][2] /\ j < i
        ranked == [r \in 1..Len(counter) |->
                    counter[CHOOSE i \in 1..Len(counter) :
                        Cardinality({j \in 1..Len(counter) : before(j, i)}) = r - 1]]
    IN  SubSeq(ranked, 1, IF n < Len(ranked) THEN n ELSE Len(ranked))

\* str(n) for a natural number n
RECURSIVE int_str(_)
int_str(n) ==
    IF n < 10 THEN <<Chr(48 + n)>>
    ELSE int_str(n \div 10) \o <<Chr(48 + (n % 10))>>

-----------------------------------------------------------------------------
(* transform: the body of the loop over source_rows.                       *)

\* The record the loop appends for one row.
transform_row(row) ==
    LET name == py_or(row_get(row, "Common Name"),
                      py_or(row_get(row, "Scientific Name"), <<"U", "n", "n", "a", "m", "e", "d", " ", "C", "o", "m", "m", "o", "d", "i", "t", "y">>))
        botanical == py_or(row_get(row, "Scientific Name"), <<>>)
        category == py_or(row_get(row, "CATEGORY"), <<"N", "T", "F", "P">>)
        species_type == determine_species_type(category)
        habitat == py_or(row_get(row, "HABITAT"), <<>>)
        conservation == py_or(row_get(row, "Conservation Status"), <<>>)
        volume == py_or(row_get(row, "Volume"), <<"M", "e", "d", "i", "u", "m">>)
        commercial == py_or(row_get(row, "Commercial Value"), <<"M", "e", "d", "i", "u", "m">>)
        districts == parse_districts(py_or(row_get(row, "Districts"), <<>>))
        products == parse_products(py_or(row_get(row, "Products"), <<>>))
        parts_used == parse_parts(py_or(row_get(row, "Plant Parts Used"), <<>>))
        linkage == determine_linkage(volume, commercial)
        product_focus == determine_product_focus(products)
        strength == build_strength(name, species_type, volume, commercial, districts)
        justification == build_justification(linkage, products, parts_used)
        slug == slugify(py_or(name, py_or(botanical, <<"s", "p", "e", "c", "i", "e", "s">>)))
        image_path == <<"i", "m", "a", "g", "e", "s", "/">> \o slug \o <<".", "j", "p", "g">>
    IN  [name |-> name,
         botanical |-> botanical,
         image |-> image_path,
         speciesType |-> species_type,
         habitat |-> habitat,
         conservation |-> conservation,
         districts |-> districts,
         partsUsed |-> parts_used,
         products |-> products,
         productFocus |-> product_focus,
         linkage |-> linkage,
         volume |-> volume,
         commercialValue |-> commercial,
         strength |-> strength,
         justification |-> justification]

\* A slip that rebuilds the part Counter from the current record alone.
tally_parts_reset(counters, record) ==
    [district |-> counter_inc_all(counters.district, record.districts),
     linkage |-> counter_inc(counters.linkage, record.linkage),
     species_type |-> counter_inc(counters.species_type, record.speciesType),
     habitat |-> IF record.habitat # <<>>
                 THEN counter_inc(counters.habitat, record.habitat)
                 ELSE counters.habitat,
     part |-> counter_inc_all(<<>>, record.partsUsed)]

\* The five Counters after the loop body has counted one record.
tally(counters, record) ==
    [district |-> counter_inc_all(counters.district, record.districts),
     linkage |-> counter_inc(counters.linkage, record.linkage),
     species_type |-> counter_inc(counters.species_type, record.speciesType),
     habitat |-> IF record.habitat # <<>>
                 THEN counter_inc(counters.habitat, record.habitat)
                 ELSE counters.habitat,
     part |-> counter_inc_all(counters.part, record.partsUsed)]

EmptyCounters ==
    [district |-> <<>>, linkage |-> <<>>, species_type |-> <<>>, habitat |-> <<>>,
     part |-> <<>>]

\* The recommendations transform renders from the Counters.  The content of
\* each is the sequence of its fragments: the fixed markup, abbreviated, and
\* the interpolated texts.
render_recommendations(counters) ==
    LET top_districts ==
            LET top == most_common(counters.district, 5)
            IN  Join([i \in 1..Len(top) |->
                        top[i][1] \o <<" ", "(">> \o int_str(top[i][2]) \o <<")">>], <<",", " ">>)
        top_parts ==
            LET top == most_common(counters.part, 4)
            IN  Join([i \in 1..Len(top) |->
                        lower(top[i][1]) \o <<" ", "(">> \o int_str(top[i][2]) \o <<")">>], <<",", " ">>)
        ntfp_share == counter_get(counters.species_type, <<"N", "T", "F", "P">>)
        agro_share == counter_get(counters.species_type, <<"A", "g", "r", "o", "-", "c", "o", "m", "m", "o", "d", "i", "t", "y">>)
        forward_focus == counter_get(counters.linkage, "Forward")
        integrated_focus == counter_get(counters.linkage, "Integrated")
    IN  <<[title |-> "For Community Enterprises",
           content |-> <<"<ul><li>... lead districts such as ", top_districts,
                         " so harvest windows ...</li><li>... focused on ", top_parts,
                         ", cutting losses ...</li><li>...</li><li>...</li></ul>">>],
          [title |-> "For Entrepreneurs",
           content |-> <<"<ul><li>... the mix of ", int_str(ntfp_share),
                         " NTFPs and ", int_str(agro_share),
                         " agro-commodities ...</li><li>... ",
                         int_str(forward_focus + integrated_focus),
                         " commodities need ...</li><li>...</li><li>...</li></ul>">>],
          [title |-> "For Planners & Support Agencies",
           content |-> <<"<ul><li>... With ", int_str(Len(counters.habitat)),
                         " habitat categories ...</li><li>...</li><li>...</li><li>...</li></ul>">>]>>

-----------------------------------------------------------------------------
(* The run: main -> transform -> load_rows.                                *)

Columns ==
    {"Common Name", "Scientific Name", "CATEGORY", "HABITAT", "Conservation Status",
     "Volume", "Commercial Value", "Districts", "Products", "Plant Parts Used"}

\* The headers a sheet may have: every column, or one without some of them.
Headers == {Columns, Columns \ {"HABITAT", "Volume", "Commercial Value"}}

\* Raw rows of the sheet.
RowAmla ==
    ("Common Name" :> <<"A", "m", "l", "a">>
     @@ "Scientific Name" :> NaN
     @@ "CATEGORY" :> NaN
     @@ "HABITAT" :> NaN
     @@ "Conservation Status" :> NaN
     @@ "Volume" :> <<"H", "i", "g", "h">>
     @@ "Commercial Value" :> <<"H", "i", "g", "h">>
     @@ "Districts" :> <<"d", "e", "h", "r", "a", "d", "u", "n", ",", " ", "N", "a", "i", "n", "i", "t", "a", "l">>
     @@ "Products" :> NaN
     @@ "Plant Parts Used" :> <<"f", "r", "u", "i", "t", ",", " ", "s", "e", "e", "d">>)
RowBlank == [c \in Columns |-> NaN]
RowSymbol ==
    ("Common Name" :> <<"&">>
     @@ "Scientific Name" :> <<"A", "l", "o", "e", " ", "v", "e", "r", "a">>
     @@ "CATEGORY" :> <<"A", "g", "r", "o", " ", "c", "r", "o", "p">>
     @@ "HABITAT" :> <<"F", "o", "r", "e", "s", "t">>
     @@ "Conservation Status" :> NaN
     @@ "Volume" :> <<"V", "e", "r", "y", " ", "H", "i", "g", "h">>
     @@ "Commercial Value" :> <<"l", "o", "w">>
     @@ "Districts" :> <<"N", "a", "i", "n", "i", "t", "a", "l", ",", "a", "l", "m", "o", "r", "a", ",", "N", "A", "I", "N", "I", "T", "A", "L">>
     @@ "Products" :> <<"H", "e", "r", "b", "a", "l", " ", "T", "e", "a", ",", " ", "S", "e", "e", "d", " ", "O", "i", "l">>
     @@ "Plant Parts Used" :> <<"L", "e", "a", "v", "e", "s", " ", "a", "n", "d", " ", "b", "a", "r", "k", "/", "z", "i", "n", "c">>)
RowAccent ==
    ("Common Name" :> <<"U+4E2D">>
     @@ "Scientific Name" :> <<"R", "u", "b", "u", "s", " ", "U+00E9">>
     @@ "CATEGORY" :> NaN
     @@ "HABITAT" :> <<"A", "l", "p", "i", "n", "e">>
     @@ "Conservation Status" :> <<"R", "a", "r", "e">>
     @@ "Volume" :> <<"l", "o", "w">>
     @@ "Commercial Value" :> <<"H", "I", "G", "H">>
     @@ "Districts" :> <<"A", "l", "m", "o", "r", "a">>
     @@ "Products" :> <<"J", "a", "m">>
     @@ "Plant Parts Used" :> <<"F", "r", "u", "i", "t", ";", " ", "l", "e", "a", "f">>)
RowHoney ==
    ("Common Name" :> <<"W", "i", "l", "d", " ", "H", "o", "n", "e", "y", " ", "&", " ", "B", "e", "e", " ", "W", "a", "x">>
     @@ "Scientific Name" :> NaN
     @@ "CATEGORY" :> NaN
     @@ "HABITAT" :> NaN
     @@ "Conservation Status" :> NaN
     @@ "Volume" :> <<"H", "i", "g", "h">>
     @@ "Commercial Value" :> <<"H", "i", "g", "h">>
     @@ "Districts" :> <<"d", "e", "h", "r", "a", "d", "u", "n", ",", " ", "N", "a", "i", "n", "i", "t", "a", "l">>
     @@ "Products" :> NaN
     @@ "Plant Parts Used" :> <<"f", "r", "u", "i", "t", ",", " ", "s", "e", "e", "d">>)

RowPool == {RowAmla, RowBlank, RowSymbol, RowAccent, RowHoney}

\* The data frames pd.read_excel may return.
Frames ==
    {[columns |-> h, rows |-> [i \in 1..Len(rs) |-> [c \in h |-> rs[i][c]]]] :
        h \in Headers, rs \in SeqsUpTo(RowPool, MaxRows)}
NoFrame == [columns |-> {}, rows |-> <<>>]

NoOutput == <<>>

InitRun ==
    /\ input_exists \in BOOLEAN
    /\ sheet \in (IF input_exists THEN Frames ELSE {NoFrame})
    /\ pc = "main"
    /\ source_rows = <<>>
    /\ species = <<>>
    /\ next_row = 0
    /\ district_counter = <<>>
    /\ linkage_counter = <<>>
    /\ species_type_counter = <<>>
    /\ habitat_counter = <<>>
    /\ parts_counter = <<>>
    /\ recommendations = <<>>
    /\ output = NoOutput

\* A slip that returns no rows when the workbook is missing.
load_rows_unchecked ==
    /\ pc = "main"
    /\ source_rows' =
            [i \in 1..Len(sheet.rows) |->
                [column \in sheet.columns |-> clean_cell(sheet.rows[i][column])]]
    /\ pc' = "loop"
    /\ UNCHANGED <<args, rets, input_exists, sheet, species, next_row,
                   counterVars, recommendations, output>>

\* main calls transform, which calls load_rows: FileNotFoundError ends the
\* run, otherwise every cell of the frame is cleaned.
load_rows ==
    /\ pc = "main"
    /\ IF ~input_exists
       THEN /\ pc' = "failed"
            /\ UNCHANGED source_rows
       ELSE /\ source_rows' =
                    [i \in 1..Len(sheet.rows) |->
                        [column \in sheet.columns |-> clean_cell(sheet.rows[i][column])]]
            /\ pc' = "loop"
    /\ UNCHANGED <<args, rets, input_exists, sheet, species, next_row,
                   counterVars, recommendations, output>>

\* A slip that skips the rows without a name of their own.
transform_loop_skip_unnamed ==
    /\ pc = "loop"
    /\ next_row < Len(source_rows)
    /\ LET row == source_rows[next_row + 1]
           record == transform_row(row)
           counted == tally([district |-> district_counter,
                             linkage |-> linkage_counter,
                             species_type |-> species_type_counter,
                             habitat |-> habitat_counter,
                             part |-> parts_counter], record)
       IN  IF py_or(row_get(row, "Common Name"), row_get(row, "Scientific Name"))
                \in {None, <<>>}
           THEN UNCHANGED <<species, counterVars>>
           ELSE /\ district_counter' = counted.district
                /\ linkage_counter' = counted.linkage
                /\ species_type_counter' = counted.species_type
                /\ habitat_counter' = counted.habitat
                /\ parts_counter' = counted.part
                /\ species' = Append(species, record)
    /\ next_row' = next_row + 1
    /\ UNCHANGED <<args, rets, input_exists, sheet, pc, source_rows,
                   recommendations, output>>

\* One iteration of "for row in source_rows".
transform_loop ==
    /\ pc = "loop"
    /\ next_row < Len(source_rows)
    /\ LET row == source_rows[next_row + 1]
           record == transform_row(row)
           counted == tally([district |-> district_counter,
                             linkage |-> linkage_counter,
                             species_type |-> species_type_counter,
                             habitat |-> habitat_counter,
                             part |-> parts_counter], record)
       IN  /\ district_counter' = counted.district
           /\ linkage_counter' = counted.linkage
           /\ species_type_counter' = counted.species_type
           /\ habitat_counter' = counted.habitat
           /\ parts_counter' = counted.part
           /\ species' = Append(species, record)
    /\ next_row' = next_row + 1
    /\ UNCHANGED <<args, rets, input_exists, sheet, pc, source_rows,
                   recommendations, output>>

\* After the loop: the recommendations are rendered and transform returns.
transform_return ==
    /\ pc = "loop"
    /\ next_row = Len(source_rows)
    /\ recommendations' =
            render_recommendations([district |-> district_counter,
                                    linkage |-> linkage_counter,
                                    species_type |-> species_type_counter,
                                    habitat |-> habitat_counter,
                                    part |-> parts_counter])
    /\ pc' = "returned"
    /\ UNCHANGED <<args, rets, input_exists, sheet, source_rows, species, next_row,
                   counterVars, output>>

\* main dumps the dataset transform returned to OUTPUT_JSON.
main_write ==
    /\ pc = "returned"
    /\ output' = <<[species |-> species, recommendations |-> recommendations]>>
    /\ pc' = "done"
    /\ UNCHANGED <<args, rets, input_exists, sheet, source_rows, species, next_row,
                   counterVars, recommendations>>

Init == InitRun /\ args = <<>> /\ rets = <<>>

Next == load_rows \/ transform_loop \/ transform_return \/ main_write

Spec == Init /\ [][Next]_vars

-----------------------------------------------------------------------------
(* Calls of the pure functions on bounded sets of arguments.               *)

\* The run is not started while a function is called on its own.
RunIdle ==
    /\ input_exists = FALSE
    /\ sheet = NoFrame
    /\ pc = "idle"
    /\ source_rows = <<>>
    /\ species = <<>>
    /\ next_row = 0
    /\ district_counter = <<>>
    /\ linkage_counter = <<>>
    /\ species_type_counter = <<>>
    /\ habitat_counter = <<>>
    /\ parts_counter = <<>>
    /\ recommendations = <<>>
    /\ output = NoOutput

\* to_ascii, called on a text and then on what it returned.
TextAlphabet ==
    {"a", "B", " ", "\t", "U+000B", "U+007F", "U+00E9", "U+4E2D", "U+00A0", "U+FB01"}

InitToAscii ==
    /\ args \in {<<text>> : text \in SeqsUpTo(TextAlphabet, MaxLen)}
    /\ rets = <<>>
    /\ RunIdle

call_to_ascii ==
    /\ Len(rets) < 2
    /\ rets' = Append(rets, to_ascii(IF rets = <<>> THEN args[1] ELSE rets[Len(rets)]))
    /\ UNCHANGED <<args, runVars>>

SpecToAscii == InitToAscii /\ [][call_to_ascii]_vars

\* determine_linkage, called on every pair of labels: each spelling of high,
\* medium and low in upper and lower case, and some labels SCORE_MAP lacks.
RECURSIVE CaseVariants(_)
CaseVariants(word) ==
    IF word = <<>> THEN {<<>>}
    ELSE {<<c>> \o rest : c \in {Head(word), UpperChar(Head(word))},
                          rest \in CaseVariants(Tail(word))}

Labels ==
    CaseVariants(<<"h", "i", "g", "h">>) \cup CaseVariants(<<"m", "e", "d", "i", "u", "m">>) \cup CaseVariants(<<"l", "o", "w">>)
    \cup {<<>>,
          <<"h", "i", "g">>,
          <<"h", "i", "g", "h", "s">>,
          <<"v", "e", "r", "y", " ", "h", "i", "g", "h">>,
          <<"3">>,
          <<"m", "e", "d", "i", "u", "m", "-", "h", "i", "g", "h">>,
          <<"n", "o", "n", "e">>}

InitLinkage ==
    /\ args \in Labels \X Labels
    /\ rets = <<>>
    /\ RunIdle

call_determine_linkage ==
    /\ rets = <<>>
    /\ rets' = <<determine_linkage(args[1], args[2])>>
    /\ UNCHANGED <<args, runVars>>

SpecLinkage == InitLinkage /\ [][call_determine_linkage]_vars

\* parse_parts, called on the cells that concatenate up to MaxPieces fragments.
PartPieces ==
    {<<"l", "e", "a", "f">>,
     <<"L", "e", "a", "v", "e", "s", ",">>,
     <<"b", "a", "r", "k", "/">>,
     <<"s", "e", "e", "d", ";">>,
     <<"z", "i", "n", "c", ",">>,
     <<"a", "l", "o", "e", " ", "a", "n", "d", " ">>,
     <<"a", "n", "d">>,
     <<" ">>,
     <<"s", "a", "n", "d", ",">>,
     <<"w", "h", "o", "l", "e", " ", "t", "h", "a", "l", "l", "u", "s", ",">>,
     <<"-">>,
     <<"F", "R", "U", "I", "T", ",">>,
     <<"N", "u", "t", " ", "&", " ", "K", "e", "r", "n", "e", "l", ",">>}

InitParts ==
    /\ args \in {<<Concat(pieces)>> : pieces \in SeqsUpTo(PartPieces, MaxPieces)}
    /\ rets = <<>>
    /\ RunIdle

call_parse_parts ==
    /\ rets = <<>>
    /\ rets' = <<parse_parts(args[1])>>
    /\ UNCHANGED <<args, runVars>>

SpecParts == InitParts /\ [][call_parse_parts]_vars

\* determine_product_focus, called on the lists of up to MaxProducts names.
ProductPool ==
    {<<"M", "a", "n", "g", "o", " ", "S", "q", "u", "a", "s", "h">>,
     <<"U", "n", "k", "n", "o", "w", "n", " ", "W", "i", "d", "g", "e", "t">>,
     <<"H", "e", "r", "b", "a", "l", " ", "T", "e", "a">>,
     <<"S", "e", "e", "d", " ", "O", "i", "l">>,
     <<"S", "t", "e", "a", "m">>,
     <<"T", "o", "n", "i", "c">>,
     <<"W", "o", "o", "d", "e", "n", " ", "P", "o", "d">>,
     <<"M", "i", "l", "l", "e", "t", " ", "F", "l", "o", "u", "r">>,
     <<"T", "E", "A">>,
     <<"C", "a", "p", "s", "u", "l", "e">>}

InitFocus ==
    /\ args \in {<<products>> : products \in SeqsUpTo(ProductPool, MaxProducts)}
    /\ rets = <<>>
    /\ RunIdle

call_determine_product_focus ==
    /\ rets = <<>>
    /\ rets' = <<determine_product_focus(args[1])>>
    /\ UNCHANGED <<args, runVars>>

SpecFocus == InitFocus /\ [][call_determine_product_focus]_vars

-----------------------------------------------------------------------------
(* Properties.                                                             *)

Min(S) == CHOOSE x \in S : \A y \in S : x <= y

\* The cleaned row load_rows makes of row i of the sheet.
CleanedRow(i) == [column \in sheet.columns |-> clean_cell(sheet.rows[i][column])]

\* The cell of row i under a column is absent or empty.
CellEmpty(i, column) ==
    column \notin sheet.columns \/ clean_cell(sheet.rows[i][column]) = <<>>

\* The score the decision table gives a label.
TableScore(label) ==
    IF lower(label) = <<"h", "i", "g", "h">> THEN 3
    ELSE IF lower(label) = <<"m", "e", "d", "i", "u", "m">> THEN 2
    ELSE IF lower(label) = <<"l", "o", "w">> THEN 1
    ELSE 2

\* C1: determine_linkage returns, for every pair of labels, what the decision
\* table gives for their scores (high=3, medium=2, low=1 whatever the case,
\* any other label 2): Integrated when both are at least 3, Backward when the
\* volume score is the smaller, Forward when it is the larger, Integrated
\* when the two are equal.
C1_LinkageFollowsTable ==
    rets # <<>> =>
        LET vol == TableScore(args[1])
            val == TableScore(args[2])
        IN  /\ rets[1] \in {"Backward", "Forward", "Integrated"}
            /\ (vol >= 3 /\ val >= 3 => rets[1] = "Integrated")
            /\ (vol < val => rets[1] = "Backward")
            /\ (vol > val => rets[1] = "Forward")
            /\ (vol = val => rets[1] = "Integrated")

C1_Witness ==
    /\ args = <<<<"L", "o", "W">>, <<"H", "I", "G", "H">>>>
    /\ rets = <<"Backward">>

\* C2: the list parse_parts returns has no duplicate label; its labels that
\* are in PART_ORDER come first, in ascending PART_ORDER index, and the
\* labels that are not follow in ascending alphabetical order.
C2_PartsOrdered ==
    rets # <<>> =>
        LET parts == rets[1]
            known(p) == \E k \in 1..Len(PART_ORDER) : PART_ORDER[k] = p
            position(p) == CHOOSE k \in 1..Len(PART_ORDER) : PART_ORDER[k] = p
        IN  \A i, j \in 1..Len(parts) :
                i < j =>
                    /\ parts[i] # parts[j]
                    /\ (known(parts[j]) => known(parts[i]))
                    /\ (known(parts[i]) /\ known(parts[j])
                            => position(parts[i]) < position(parts[j]))
                    /\ (~known(parts[i]) /\ ~known(parts[j])
                            => StrLess(parts[i], parts[j]))

C2_Witness ==
    /\ args = <<<<"z", "i", "n", "c", ",", "a", "l", "o", "e", " ", "a", "n", "d", " ", "l", "e", "a", "f">>>>
    /\ rets = <<<<<<"L", "e", "a", "f">>, <<"A", "l", "o", "e">>, <<"Z", "i", "n", "c">>>>>>

\* C3: determine_product_focus returns the label of the first entry of
\* CATEGORY_KEYWORDS, in table order, with a keyword that occurs in the
\* lower-cased, space-joined product names, and Other Value Chain exactly
\* when no entry has one; a text containing "tea" gives Beverages &
\* Processed Foods.
C3_FirstCategoryWins ==
    rets # <<>> =>
        LET products == args[1]
            joined == Join([i \in 1..Len(products) |-> lower(products[i])], <<" ">>)
            matching == {i \in 1..Len(CATEGORY_KEYWORDS) :
                            \E k \in 1..Len(CATEGORY_KEYWORDS[i].keywords) :
                                Contains(joined, CATEGORY_KEYWORDS[i].keywords[k])}
        IN  /\ (matching # {} => rets[1] = CATEGORY_KEYWORDS[Min(matching)].label)
            /\ (rets[1] = "Other Value Chain" <=> matching = {})
            /\ (Contains(joined, <<"t", "e", "a">>) => rets[1] = "Beverages & Processed Foods")

C3_Witness ==
    /\ args = <<<<<<"H", "e", "r", "b", "a", "l", " ", "T", "e", "a">>>>>>
    /\ rets = <<"Beverages & Processed Foods">>

\* The slug inside an image path "images/<slug>.jpg".
SlugOfImage(image) == SubSeq(image, 8, Len(image) - 4)

\* C4: the slug of every record's image is not empty and neither starts nor
\* ends with a hyphen.
C4_SlugNeverEmpty ==
    \A i \in 1..Len(species) :
        LET slug == SlugOfImage(species[i].image)
        IN  /\ slug # <<>>
            /\ slug[1] # "-"
            /\ slug[Len(slug)] # "-"

\* The Counters the loop ends with when it takes the rows in an order that
\* gives their records in the order given (the record of a row is
\* transform_row of the row, wherever the row stands).
RECURSIVE CountRecords(_, _)
CountRecords(records, counters) ==
    IF records = <<>> THEN counters
    ELSE CountRecords(Tail(records), tally(counters, Head(records)))

\* The values of a Counter, whatever the order its keys were inserted in.
CounterValues(counter) == Range(counter)

\* C5: the five Counters end with the same values whatever the order the
\* rows are processed in.
C5_AggregationOrderIndependent ==
    pc \in {"returned", "done"} =>
        /\ \A i \in 1..Len(source_rows) : species[i] = transform_row(source_rows[i])
        /\ \A p \in Permutations(1..Len(source_rows)) :
            LET shuffled == [i \in 1..Len(source_rows) |-> species[p[i]]]
                counted == CountRecords(shuffled, EmptyCounters)
            IN  /\ CounterValues(counted.district) = CounterValues(district_counter)
                /\ CounterValues(counted.linkage) = CounterValues(linkage_counter)
                /\ CounterValues(counted.species_type) = CounterValues(species_type_counter)
                /\ CounterValues(counted.habitat) = CounterValues(habitat_counter)
                /\ CounterValues(counted.part) = CounterValues(parts_counter)

\* A finished run whose rows, taken backwards, insert the Counters' keys in
\* another order and count some key twice.
C5_Witness ==
    /\ pc = "done"
    /\ Len(source_rows) >= 2
    /\ LET backwards == [i \in 1..Len(species) |-> species[Len(species) + 1 - i]]
           counted == CountRecords(backwards, EmptyCounters)
       IN  /\ counted.district # district_counter
           /\ counted.part # parts_counter
    /\ \E i \in 1..Len(parts_counter) : parts_counter[i][2] >= 2
    /\ \E i \in 1..Len(habitat_counter) : habitat_counter[i][2] >= 1

\* C6: a run that completes returns one record per row of the sheet, in row
\* order, none dropped or duplicated, and three recommendations.
C6_OneRecordPerRow ==
    pc \in {"returned", "done"} =>
        /\ Len(species) = Len(sheet.rows)
        /\ \A i \in 1..Len(species) : species[i] = transform_row(CleanedRow(i))
        /\ Len(recommendations) = 3
        /\ \A k \in 1..Len(recommendations) :
                DOMAIN recommendations[k] = {"title", "content"}
        /\ (pc = "done" =>
                output = <<[species |-> species, recommendations |-> recommendations]>>)

C6_Witness ==
    /\ pc = "done"
    /\ Len(species) >= 2
    /\ \E i \in 1..Len(sheet.rows) :
            /\ i < Len(sheet.rows)
            /\ \A column \in sheet.columns : sheet.rows[i][column] = NaN
            /\ species[i].name = <<"U", "n", "n", "a", "m", "e", "d", " ", "C", "o", "m", "m", "o", "d", "i", "t", "y">>

\* C7: with the input missing load_rows fails before any record is built and
\* nothing is written; what is written covers every row of the sheet and
\* holds the rendered recommendations.
C7_RunAtomic ==
    /\ (~input_exists /\ pc # "idle" =>
            /\ pc \in {"main", "failed"}
            /\ species = <<>>
            /\ output = NoOutput)
    /\ (pc = "failed" => ~input_exists /\ species = <<>> /\ output = NoOutput)
    /\ (output # NoOutput =>
            /\ pc = "done"
            /\ Len(output) = 1
            /\ Len(output[1].species) = Len(sheet.rows)
            /\ Len(output[1].recommendations) = 3)

C7_Witness ==
    /\ pc = "failed"
    /\ ~input_exists
    /\ output = NoOutput

QualitativeLabels == {<<"h", "i", "g", "h">>, <<"m", "e", "d", "i", "u", "m">>, <<"l", "o", "w">>}

\* C8 as stated: every record's volume and commercialValue are one of high,
\* medium, low in some case, and Medium when the cell is absent or empty.
C8_LabelsQualitative ==
    \A i \in 1..Len(species) :
        /\ lower(species[i].volume) \in QualitativeLabels
        /\ lower(species[i].commercialValue) \in QualitativeLabels
        /\ (CellEmpty(i, "Volume") => species[i].volume = <<"M", "e", "d", "i", "u", "m">>)
        /\ (CellEmpty(i, "Commercial Value") => species[i].commercialValue = <<"M", "e", "d", "i", "u", "m">>)

\* C8 amended: every record's volume and commercialValue are Medium when the
\* row's cell is absent or empty and the cleaned text of the cell otherwise,
\* so one of high, medium, low exactly when the cell is.
C8_LabelsCopiedOrMedium ==
    \A i \in 1..Len(species) :
        /\ species[i].volume =
                (IF CellEmpty(i, "Volume") THEN <<"M", "e", "d", "i", "u", "m">>
                 ELSE clean_cell(sheet.rows[i]["Volume"]))
        /\ species[i].commercialValue =
                (IF CellEmpty(i, "Commercial Value") THEN <<"M", "e", "d", "i", "u", "m">>
                 ELSE clean_cell(sheet.rows[i]["Commercial Value"]))

C8_Witness ==
    /\ \E i \in 1..Len(species) :
            /\ "Volume" \in sheet.columns
            /\ sheet.rows[i]["Volume"] = NaN
            /\ species[i].volume = <<"M", "e", "d", "i", "u", "m">>
    /\ \E i \in 1..Len(species) :
            /\ sheet.rows[i]["Commercial Value"] = <<"l", "o", "w">>
            /\ species[i].commercialValue = <<"l", "o", "w">>
    /\ \E i \in 1..Len(species) : species[i].volume = <<"V", "e", "r", "y", " ", "H", "i", "g", "h">>

\* Row i of the sheet has Volume and Commercial Value High, Districts
\* "dehradun, Nainital", Plant Parts Used "fruit, seed", a Common Name and
\* nothing else.
IsEndToEndRow(i) ==
    /\ {"Common Name", "Volume", "Commercial Value", "Districts", "Plant Parts Used"}
            \subseteq sheet.columns
    /\ sheet.rows[i]["Common Name"] # NaN
    /\ sheet.rows[i]["Volume"] = <<"H", "i", "g", "h">>
    /\ sheet.rows[i]["Commercial Value"] = <<"H", "i", "g", "h">>
    /\ sheet.rows[i]["Districts"] = <<"d", "e", "h", "r", "a", "d", "u", "n", ",", " ", "N", "a", "i", "n", "i", "t", "a", "l">>
    /\ sheet.rows[i]["Plant Parts Used"] = <<"f", "r", "u", "i", "t", ",", " ", "s", "e", "e", "d">>
    /\ \A column \in sheet.columns \ {"Common Name", "Volume", "Commercial Value",
                                      "Districts", "Plant Parts Used"} :
            sheet.rows[i][column] = NaN

\* The record of the row named Amla.
AmlaRecord ==
    [name |-> <<"A", "m", "l", "a">>,
     botanical |-> <<>>,
     image |-> <<"i", "m", "a", "g", "e", "s", "/", "a", "m", "l", "a", ".", "j", "p", "g">>,
     speciesType |-> <<"N", "T", "F", "P">>,
     habitat |-> <<>>,
     conservation |-> <<>>,
     districts |-> <<<<"D", "e", "h", "r", "a", "d", "u", "n">>, <<"N", "a", "i", "n", "i", "t", "a", "l">>>>,
     partsUsed |-> <<<<"F", "r", "u", "i", "t">>, <<"S", "e", "e", "d">>>>,
     products |-> <<>>,
     productFocus |-> "Other Value Chain",
     linkage |-> "Integrated",
     volume |-> <<"H", "i", "g", "h">>,
     commercialValue |-> <<"H", "i", "g", "h">>,
     strength |-> <<"A", "m", "l", "a", " ", "(", "N", "T", "F", "P", ")", " ", "s", "h", "o", "w", "s", " ", "h", "i", "g", "h", " ", "v", "o", "l", "u", "m", "e", " ",
                  "p", "o", "t", "e", "n", "t", "i", "a", "l", " ", "a", "n", "d", " ", "h", "i", "g", "h", " ", "c", "o", "m", "m", "e", "r", "c", "i", "a", "l", " ", "v", "a", "l", "u", "e", " ",
                  "a", "c", "r", "o", "s", "s", " ", "D", "e", "h", "r", "a", "d", "u", "n", " ", "a", "n", "d", " ", "N", "a", "i", "n", "i", "t", "a", "l", ".">>,
     justification |-> "Coordinate both production and market-side interventions for balanced growth."]

\* C9: such a row gives a record with linkage Integrated, districts Dehradun
\* and Nainital, partsUsed Fruit and Seed and a strength that holds its name;
\* the Amla row gives the same record wherever it stands in the sheet.
C9_EndToEndRecord ==
    \A i \in 1..Len(species) :
        IsEndToEndRow(i) =>
            /\ species[i].linkage = "Integrated"
            /\ species[i].districts = <<<<"D", "e", "h", "r", "a", "d", "u", "n">>, <<"N", "a", "i", "n", "i", "t", "a", "l">>>>
            /\ species[i].partsUsed = <<<<"F", "r", "u", "i", "t">>, <<"S", "e", "e", "d">>>>
            /\ species[i].strength # <<>>
            /\ species[i].name = clean_cell(sheet.rows[i]["Common Name"])
            /\ Contains(species[i].strength, species[i].name)
            /\ (sheet.rows[i]["Common Name"] = <<"A", "m", "l", "a">> => species[i] = AmlaRecord)

C9_Witness ==
    /\ Len(species) >= 2
    /\ ~IsEndToEndRow(1)
    /\ \E i \in 2..Len(species) :
            /\ IsEndToEndRow(i)
            /\ species[i] = AmlaRecord
            /\ i < Len(sheet.rows)

\* C10: to_ascii applied to its own result returns it unchanged.
C10_ToAsciiIdempotent ==
    Len(rets) = 2 => rets[2] = rets[1]

C10_Witness ==
    /\ args = <<<<"U+00E9", " ", "U+4E2D">>>>
    /\ rets = <<<<"e">>, <<"e">>>>

=============================================================================
